---------------------------- MODULE Spec2Model ----------------------------
(***************************************************************************)
(* GNIDA Litigation Intelligence dashboard (src/app.py).                   *)
(*                                                                         *)
(* The Streamlit script is modelled as a state machine: load_cases runs    *)
(* once (st.cache_data), row by row, and afterwards every user interaction *)
(* (Run Search, a click on a calendar event, Save Assignment) is one rerun *)
(* of the script.  Text is a sequence of one-character strings, a date is  *)
(* its proleptic Gregorian ordinal (datetime.toordinal), a DataFrame is a  *)
(* sequence of rows that carry their pandas index label.                   *)
(***************************************************************************)
EXTENDS Integers, Sequences, FiniteSets, TLC

VARIABLES
    pc,               \* position of the script: "start", "rows", "draw", "assign", "ready", "failed"
    df,               \* load_cases: the DataFrame read from cases_data.csv
    i,                \* load_cases: position of df.iterrows()
    next_dates,       \* load_cases: the list next_dates
    days_ahead,       \* load_cases: the last random.randint(1, 30) (0: none drawn yet)
    df_cases,         \* the module-level table returned by load_cases
    assignments,      \* st.session_state.assignments
    selected_event,   \* value of the calendar component (NoEvent: nothing selected)
    case_data,        \* row shown in the detail panel (NoRow: none)
    clicked,          \* button that triggered the last rerun
    query_input,      \* tab1 widgets as read by the last Run Search
    court_filter,
    status_filter,
    case_type_filter,
    outcome,          \* of agentic_case_search in the last rerun: "none", "returned", "raised"
    reasoning,        \* returned trace
    results_df,       \* returned DataFrame
    shown,            \* tab1 elements rendered below the trace by the last rerun
    department,       \* tab2 widgets as read by the last Save Assignment
    individual

loadVars == <<pc, df, i, next_dates, days_ahead, df_cases>>
searchVars == <<query_input, court_filter, status_filter, case_type_filter,
                outcome, reasoning, results_df, shown>>
saveVars == <<department, individual>>
vars == <<pc, df, i, next_dates, days_ahead, df_cases, assignments, selected_event,
          case_data, clicked, query_input, court_filter, status_filter,
          case_type_filter, outcome, reasoning, results_df, shown, department,
          individual>>

(***************************************************************************)
(* Bounds of the model.                                                    *)
(***************************************************************************)
\* Largest number of rows of cases_data.csv.
MaxRows == 2

(***************************************************************************)
(* Text.                                                                   *)
(***************************************************************************)
\* pandas' missing value in a text column (read_csv reads an empty cell as NaN).
NaN == <<"NaN">>
\* pandas' missing value in a datetime column.
NaT == 0

All == <<"A", "l", "l">>
Pending == <<"P", "e", "n", "d", "i", "n", "g">>
Stayed == <<"S", "t", "a", "y", "e", "d">>
Decided == <<"D", "e", "c", "i", "d", "e", "d">>

LowerOf ==
    [A |-> "a", B |-> "b", C |-> "c", D |-> "d", E |-> "e", F |-> "f", G |-> "g",
     H |-> "h", I |-> "i", J |-> "j", K |-> "k", L |-> "l", M |-> "m", N |-> "n",
     O |-> "o", P |-> "p", Q |-> "q", R |-> "r", S |-> "s", T |-> "t", U |-> "u",
     V |-> "v", W |-> "w", X |-> "x", Y |-> "y", Z |-> "z"]

\* str.lower() of one character.
lower(c) == IF c \in DOMAIN LowerOf THEN LowerOf[c] ELSE c

\* str.lower() of a text.
lower_str(s) == [k \in 1..Len(s) |-> lower(s[k])]

\* str.isspace() of one character (the modelled texts hold no tab or newline).
isspace(c) == c = " "

RECURSIVE lstrip(_)
lstrip(s) == IF s # <<>> /\ isspace(Head(s)) THEN lstrip(Tail(s)) ELSE s

RECURSIVE rstrip(_)
rstrip(s) ==
    IF s # <<>> /\ isspace(s[Len(s)]) THEN rstrip(SubSeq(s, 1, Len(s) - 1)) ELSE s

\* str.strip()
strip(s) == rstrip(lstrip(s))

(***************************************************************************)
(* Series.str.contains(pat, case=False, na=False).  regex defaults to True:*)
(* pat is compiled with re.IGNORECASE and searched in every value.  The    *)
(* modelled patterns are made of ordinary characters, "." (any character   *)
(* but a newline) and "(" (opens a group; no modelled pattern holds a ")", *)
(* so re.compile raises "missing ), unterminated subpattern").             *)
(***************************************************************************)
re_compile_raises(pat) == \E k \in 1..Len(pat) : pat[k] = "("

re_match_char(p, c) == p = "." \/ lower(p) = lower(c)

re_match_at(pat, s, k) ==
    /\ k + Len(pat) - 1 <= Len(s)
    /\ \A j \in 1..Len(pat) : re_match_char(pat[j], s[k + j - 1])

re_search(pat, s) == \E k \in 1..(Len(s) + 1) : re_match_at(pat, s, k)

str_contains(s, pat, na) == IF s = NaN THEN na ELSE re_search(pat, s)

(***************************************************************************)
(* Dates: datetime.toordinal, datetime + timedelta(days), weekday(),       *)
(* strftime("%Y-%m-%d") as the triple <<year, month, day>>.                *)
(***************************************************************************)
is_leap(y) == y % 4 = 0 /\ (y % 100 # 0 \/ y % 400 = 0)

days_before_year(y) == (y - 1) * 365 + (y - 1) \div 4 - (y - 1) \div 100 + (y - 1) \div 400

days_in_month(y, m) ==
    IF m = 2 THEN (IF is_leap(y) THEN 29 ELSE 28)
    ELSE IF m \in {4, 6, 9, 11} THEN 30 ELSE 31

RECURSIVE days_before_month(_, _)
days_before_month(y, m) ==
    IF m = 1 THEN 0 ELSE days_before_month(y, m - 1) + days_in_month(y, m - 1)

ymd2ord(y, m, d) == days_before_year(y) + days_before_month(y, m) + d

ord2ymd(n) ==
    LET y == CHOOSE yy \in (n \div 366)..(n \div 365 + 1) :
                 days_before_year(yy) < n /\ n <= days_before_year(yy + 1)
        r == n - days_before_year(y)
        m == CHOOSE mm \in 1..12 :
                 days_before_month(y, mm) < r
                 /\ r <= days_before_month(y, mm) + days_in_month(y, mm)
    IN <<y, m, r - days_before_month(y, m)>>

\* datetime.weekday(): Monday is 0, Sunday is 6.
weekday(n) == (n + 6) % 7

\* TODAY = datetime(2025, 9, 15)
TODAY == ymd2ord(2025, 9, 15)

(***************************************************************************)
(* cases_data.csv.  The data file is not among the sources; its rows       *)
(* follow the documented data model: the columns Case No., Court, Status,  *)
(* Case Type, Petitioner, Filing Date, Summary, unique case numbers, at    *)
(* least one row, absent cells read as NaN.                                *)
(***************************************************************************)
CaseRows ==
    { [CaseNo |-> <<"C", "1">>, Court |-> <<"H", "C">>, Status |-> Pending,
       CaseType |-> <<"L", "a", "n", "d">>, Petitioner |-> <<"R", "a", "o">>,
       FilingDate |-> ymd2ord(2024, 3, 1), Summary |-> <<"t", "a", "x">>],
      [CaseNo |-> <<"C", "2">>, Court |-> <<"S", "C">>, Status |-> Decided,
       CaseType |-> <<"T", "a", "x">>, Petitioner |-> NaN,
       FilingDate |-> ymd2ord(2023, 12, 31), Summary |-> <<"L", "a", "n", "d">>],
      [CaseNo |-> <<"C", "3">>, Court |-> <<"H", "C">>, Status |-> Stayed,
       CaseType |-> NaN, Petitioner |-> NaN,
       FilingDate |-> ymd2ord(2025, 9, 1), Summary |-> NaN] }

\* The possible contents of the file: its rows in file order.
cases_data ==
    { t \in UNION { [1..n -> CaseRows] : n \in 1..MaxRows } :
        \A a, b \in 1..Len(t) : a # b => t[a].CaseNo # t[b].CaseNo }

\* pd.read_csv: the rows in file order under a RangeIndex 0, 1, ...
read_csv(file) ==
    [k \in 1..Len(file) |->
        [index |-> k - 1, CaseNo |-> file[k].CaseNo, Court |-> file[k].Court,
         Status |-> file[k].Status, CaseType |-> file[k].CaseType,
         Petitioner |-> file[k].Petitioner, FilingDate |-> file[k].FilingDate,
         Summary |-> file[k].Summary]]

(***************************************************************************)
(* load_cases                                                              *)
(***************************************************************************)
\* random.randint(1, 30)
randint_1_30 == 1..30

\* The draws the specifications of the user session take: they follow a load
\* to its end without every combination of hearing dates.
SampledDraws == {1, 5, 30}

\* row["Status"] in ["Pending", "Stayed"]
is_open(row) == row.Status \in {Pending, Stayed}

\* is_weekday with the bound off by one: Saturday passes.
is_weekday_le5(date_candidate) == weekday(date_candidate) <= 5

\* date_candidate.weekday() < 5
is_weekday(date_candidate) == weekday(date_candidate) < 5

\* df["Next Hearing Date"] = next_dates
with_next_dates(table, dates) ==
    [k \in 1..Len(table) |->
        [index |-> table[k].index, CaseNo |-> table[k].CaseNo, Court |-> table[k].Court,
         Status |-> table[k].Status, CaseType |-> table[k].CaseType,
         Petitioner |-> table[k].Petitioner, FilingDate |-> table[k].FilingDate,
         Summary |-> table[k].Summary, NextHearingDate |-> dates[k]]]

NoEvent == [title |-> <<>>, start |-> <<>>, end |-> <<>>, color |-> "", id |-> NaN]
NoRow == [index |-> -1]
NoText == <<>>

\* What a rerun that does not press Run Search leaves of tab1.
NoSearch ==
    /\ query_input' = NoText
    /\ court_filter' = All
    /\ status_filter' = All
    /\ case_type_filter' = All
    /\ outcome' = "none"
    /\ reasoning' = <<>>
    /\ results_df' = <<>>
    /\ shown' = {}

\* What a rerun that does not press Save Assignment leaves of the form.
NoSave ==
    /\ department' = ""
    /\ individual' = ""

Init ==
    /\ pc = "start"
    /\ df = <<>>
    /\ i = 0
    /\ next_dates = <<>>
    /\ days_ahead = 0
    /\ df_cases = <<>>
    /\ assignments = <<>>
    /\ selected_event = NoEvent
    /\ case_data = NoRow
    /\ clicked = "none"
    /\ query_input = NoText
    /\ court_filter = All
    /\ status_filter = All
    /\ case_type_filter = All
    /\ outcome = "none"
    /\ reasoning = <<>>
    /\ results_df = <<>>
    /\ shown = {}
    /\ department = ""
    /\ individual = ""

uiVars == <<assignments, selected_event, case_data, clicked, searchVars, saveVars>>

\* df = pd.read_csv("cases_data.csv", ...); next_dates = []
ReadCsv ==
    /\ pc = "start"
    /\ \E file \in cases_data : df' = read_csv(file)
    /\ next_dates' = <<>>
    /\ i' = 1
    /\ pc' = "rows"
    /\ UNCHANGED <<days_ahead, df_cases, uiVars>>

\* NextRow without the else branch: a closed row gets no entry.
NextRowNoElse ==
    /\ pc = "rows"
    /\ i <= Len(df)
    /\ IF is_open(df[i])
       THEN /\ pc' = "draw"
            /\ UNCHANGED <<i, next_dates>>
       ELSE /\ i' = i + 1
            /\ UNCHANGED <<pc, next_dates>>
    /\ UNCHANGED <<df, days_ahead, df_cases, uiVars>>

\* for _, row in df.iterrows(): the status test, and the else branch
NextRow ==
    /\ pc = "rows"
    /\ i <= Len(df)
    /\ IF is_open(df[i])
       THEN /\ pc' = "draw"
            /\ UNCHANGED <<i, next_dates>>
       ELSE /\ next_dates' = Append(next_dates, NaT)
            /\ i' = i + 1
            /\ pc' = "rows"
    /\ UNCHANGED <<df, days_ahead, df_cases, uiVars>>

\* one turn of the while True loop
DrawDay(d) ==
    /\ pc = "draw"
    /\ days_ahead' = d
    /\ LET date_candidate == TODAY + d
       IN IF is_weekday(date_candidate)
          THEN /\ next_dates' = Append(next_dates, date_candidate)
               /\ i' = i + 1
               /\ pc' = "rows"
          ELSE UNCHANGED <<next_dates, i, pc>>
    /\ UNCHANGED <<df, df_cases, uiVars>>

Draw == \E d \in randint_1_30 : DrawDay(d)

\* The same turn with the draw taken from SampledDraws: a Tuesday, a Saturday
\* and the last day of the window.
DrawSampled == \E d \in SampledDraws : DrawDay(d)

\* the loop is exhausted
RowsDone ==
    /\ pc = "rows"
    /\ i > Len(df)
    /\ pc' = "assign"
    /\ UNCHANGED <<df, i, next_dates, days_ahead, df_cases, uiVars>>

\* df["Next Hearing Date"] = next_dates; return df; df_cases = load_cases().
\* pandas raises ValueError when the list is not as long as the table.
LoadReturn ==
    /\ pc = "assign"
    /\ IF Len(next_dates) = Len(df)
       THEN /\ df_cases' = with_next_dates(df, next_dates)
            /\ pc' = "ready"
       ELSE /\ pc' = "failed"
            /\ UNCHANGED df_cases
    /\ df' = <<>>
    /\ next_dates' = <<>>
    /\ i' = 0
    /\ days_ahead' = 0
    /\ UNCHANGED uiVars

NextLoad == ReadCsv \/ NextRow \/ Draw \/ RowsDone \/ LoadReturn

LoadSampled == ReadCsv \/ NextRow \/ DrawSampled \/ RowsDone \/ LoadReturn

\* The turn of the while loop that draws a weekday.
DrawAccepted == Draw /\ pc' = "rows"

\* load_cases alone; every draw of random.randint has a positive chance of a
\* weekday, so the loop is not left forever in its rejecting turns.
SpecLoad ==
    Init /\ [][NextLoad]_vars /\ WF_vars(ReadCsv) /\ WF_vars(NextRow)
         /\ WF_vars(DrawAccepted) /\ WF_vars(RowsDone) /\ WF_vars(LoadReturn)

(***************************************************************************)
(* agentic_case_search                                                     *)
(***************************************************************************)
StepReceived == <<"Step 1: Received litigation search request.">>
StepCourt(v) == <<"Filtered by Court: ", v>>
StepStatus(v) == <<"Filtered by Status: ", v>>
StepCaseType(v) == <<"Filtered by Case Type: ", v>>
StepText == <<"Applied text search filter.">>
StepFound(n) == <<"Found matching cases: ", n>>

\* results[results["Court"] == court_filter]; NaN equals nothing
filter_court(results, v) == SelectSeq(results, LAMBDA r : r.Court # NaN /\ r.Court = v)

\* results[results["Status"] == status_filter]
filter_status(results, v) == SelectSeq(results, LAMBDA r : r.Status # NaN /\ r.Status = v)

\* results[results["Case Type"] == case_type_filter]
filter_case_type(results, v) ==
    SelectSeq(results, LAMBDA r : r.CaseType # NaN /\ r.CaseType = v)

\* query_active without the strip: a query of blanks counts as a query.
query_active_unstripped(q) == q # <<>>

\* if query.strip():
query_active(q) == strip(q) # <<>>

\* the mask of the text filter; the query is passed as typed, not stripped
text_mask(r, q) ==
    \/ str_contains(r.Summary, q, FALSE)
    \/ str_contains(r.Petitioner, q, FALSE)
    \/ str_contains(r.CaseType, q, FALSE)

\* text_filter that lower-cases the searched columns in place before matching.
lower_cell(s) == IF s = NaN THEN NaN ELSE lower_str(s)
text_filter_lowercased(results, q) ==
    LET lowered == [k \in 1..Len(results) |->
                       [results[k] EXCEPT !.Summary = lower_cell(@),
                                          !.Petitioner = lower_cell(@),
                                          !.CaseType = lower_cell(@)]]
    IN SelectSeq(lowered, LAMBDA r : text_mask(r, q))

text_filter(results, q) == SelectSeq(results, LAMBDA r : text_mask(r, q))

\* found_step that counts the whole table instead of the result.
found_step_total(results) == StepFound(Len(df_cases))

\* f"Found {len(results)} matching cases."
found_step(results) == StepFound(Len(results))

\* The call: [raised, reasoning, results]; raised when re.compile rejects the query.
agentic_case_search(q, court, status, ctype) ==
    LET s0 == <<StepReceived>>
        r0 == df_cases
        r1 == IF court # All THEN filter_court(r0, court) ELSE r0
        s1 == IF court # All THEN Append(s0, StepCourt(court)) ELSE s0
        r2 == IF status # All THEN filter_status(r1, status) ELSE r1
        s2 == IF status # All THEN Append(s1, StepStatus(status)) ELSE s1
        r3 == IF ctype # All THEN filter_case_type(r2, ctype) ELSE r2
        s3 == IF ctype # All THEN Append(s2, StepCaseType(ctype)) ELSE s2
    IN IF query_active(q) /\ re_compile_raises(q)
       THEN [raised |-> TRUE, reasoning |-> <<>>, results |-> <<>>]
       ELSE LET r4 == IF query_active(q) THEN text_filter(r3, q) ELSE r3
                s4 == IF query_active(q) THEN Append(s3, StepText) ELSE s3
            IN [raised |-> FALSE, reasoning |-> Append(s4, found_step(r4)),
                results |-> r4]

\* if not results_df.empty: dataframe and download button, else the warning
render_results(results) ==
    IF results # <<>> THEN {"dataframe", "download_button"} ELSE {"warning"}

(***************************************************************************)
(* What the user can enter.                                                *)
(***************************************************************************)
Queries ==
    { <<>>, <<" ">>, <<"a", "n">>, <<"T", "A", "X">>, <<"c">>, <<".">>,
      <<"a", ".", "d">>, <<"(">> }
CourtFilters == { All, <<"H", "C">>, <<"S", "C">>, <<"N", "G", "T">> }
StatusFilters == { All, Pending, Decided }
CaseTypeFilters == { All, <<"T", "a", "x">> }
SessionQueries == { <<>>, <<"a", "n">>, <<"(">> }
Departments == { "Legal", "Land Acquisition", "Environment", "Infrastructure" }
Officers == { "", "Rao" }

(***************************************************************************)
(* Reruns of the script once the table is loaded.                          *)
(***************************************************************************)
\* if st.button("Run Search"): ...
RunSearch(q, court, status, ctype) ==
    /\ pc = "ready"
    /\ clicked' = "Run Search"
    /\ query_input' = q
    /\ court_filter' = court
    /\ status_filter' = status
    /\ case_type_filter' = ctype
    /\ LET call == agentic_case_search(q, court, status, ctype)
       IN IF call.raised
          THEN /\ outcome' = "raised"
               /\ reasoning' = <<>>
               /\ results_df' = <<>>
               /\ shown' = {}
          ELSE /\ outcome' = "returned"
               /\ reasoning' = call.reasoning
               /\ results_df' = call.results
               /\ shown' = render_results(call.results)
    /\ NoSave
    /\ UNCHANGED <<loadVars, assignments, selected_event, case_data>>

Search ==
    \E q \in Queries, court \in CourtFilters, status \in StatusFilters,
       ctype \in CaseTypeFilters : RunSearch(q, court, status, ctype)

SessionSearch == \E q \in SessionQueries : RunSearch(q, All, All, All)

\* one calendar event of tab2
event_of(row) ==
    [title |-> <<row.CaseNo, row.Petitioner>>,
     start |-> ord2ymd(row.NextHearingDate),
     end |-> ord2ymd(row.NextHearingDate),
     color |-> IF row.Status = Pending THEN "red" ELSE "orange",
     id |-> row.CaseNo]

\* df_cases[df_cases["Next Hearing Date"].notna()]
rows_with_hearing == SelectSeq(df_cases, LAMBDA r : r.NextHearingDate # NaT)

events == [k \in 1..Len(rows_with_hearing) |-> event_of(rows_with_hearing[k])]

\* case_lookup without the mask: the first row of the table.
case_lookup_first(case_id) == Head(df_cases)

\* df_cases[df_cases["Case No."] == case_id].iloc[0]
case_lookup(case_id) == Head(SelectSeq(df_cases, LAMBDA r : r.CaseNo = case_id))

\* the user clicks an event of the calendar
SelectEvent ==
    /\ pc = "ready"
    /\ \E k \in 1..Len(events) :
          /\ selected_event' = events[k]
          /\ case_data' = case_lookup(events[k].id)
    /\ clicked' = "none"
    /\ NoSearch
    /\ NoSave
    /\ UNCHANGED <<loadVars, assignments>>

\* save_assignment that rebuilds the map with the one entry.
save_assignment_reset(a, case_id, dept, officer) ==
    [k \in {case_id} |-> [Department |-> dept, Officer |-> officer]]

\* st.session_state.assignments[case_id] = {"Department": ..., "Officer": ...}
save_assignment(a, case_id, dept, officer) ==
    [k \in DOMAIN a \cup {case_id} |->
        IF k = case_id THEN [Department |-> dept, Officer |-> officer] ELSE a[k]]

\* if st.button("Save Assignment"): ... (the form is rendered only under a selection)
SaveAssignment ==
    /\ pc = "ready"
    /\ selected_event # NoEvent
    /\ \E dept \in Departments, officer \in Officers :
          /\ department' = dept
          /\ individual' = officer
          /\ assignments' = save_assignment(assignments, selected_event.id, dept, officer)
    /\ clicked' = "Save Assignment"
    /\ NoSearch
    /\ UNCHANGED <<loadVars, selected_event, case_data>>

Next == LoadSampled \/ SessionSearch \/ SelectEvent \/ SaveAssignment

NextSearch == LoadSampled \/ Search

\* The whole script.
Spec == Init /\ [][Next]_vars

\* The search, with every modelled argument tuple.
SpecSearch == Init /\ [][NextSearch]_vars

(***************************************************************************)
(* Properties.                                                             *)
(***************************************************************************)
SearchRan == pc = "ready" /\ clicked = "Run Search"
SearchReturned == SearchRan /\ outcome = "returned"

\* q occurs in s as a plain substring, letter case ignored; never in a missing value.
Occurs(q, s) ==
    /\ s # NaN
    /\ \E k \in 1..(Len(s) - Len(q) + 1) :
          \A j \in 1..Len(q) : lower(q[j]) = lower(s[k + j - 1])

OccursInText(q, r) ==
    Occurs(q, r.Summary) \/ Occurs(q, r.Petitioner) \/ Occurs(q, r.CaseType)

PassesCategorical(r) ==
    /\ court_filter = All \/ r.Court = court_filter
    /\ status_filter = All \/ r.Status = status_filter
    /\ case_type_filter = All \/ r.CaseType = case_type_filter

SatisfiesAll(r) ==
    /\ PassesCategorical(r)
    /\ strip(query_input) = <<>> \/ OccursInText(query_input, r)

InResults(r) == \E k \in 1..Len(results_df) : results_df[k] = r

\* C1: a Run Search that returns, returns exactly the rows of df_cases, in table order,
\* that satisfy all active predicates: the categorical equalities and, for a
\* query that is not empty after trimming, a case-insensitive occurrence of the
\* query in Summary, Petitioner or Case Type.
C1_ExactConjunction ==
    SearchReturned => results_df = SelectSeq(df_cases, SatisfiesAll)

\* C2: the returned rows are rows of df_cases with every field unchanged, in
\* increasing index order, so none is returned more often than it occurs.
C2_ResultSubset ==
    SearchReturned =>
        /\ \A k \in 1..Len(results_df) :
              \E j \in 1..Len(df_cases) : df_cases[j] = results_df[k]
        /\ \A a, b \in 1..Len(results_df) :
              a < b => results_df[a].index < results_df[b].index

C2_Witness ==
    /\ SearchReturned
    /\ 0 < Len(results_df)
    /\ Len(results_df) < Len(df_cases)
    /\ query_input = <<"T", "A", "X">>

\* C3: in the loaded table every Pending or Stayed row has a hearing date that
\* is a weekday after TODAY and at most 30 days after it; every other row has none.
C3_HearingDates ==
    pc = "ready" =>
        \A k \in 1..Len(df_cases) :
            LET r == df_cases[k]
                n == r.NextHearingDate
            IN IF r.Status \in {Pending, Stayed}
               THEN /\ n # NaT
                    /\ (n + 6) % 7 \in 0..4
                    /\ TODAY < n
                    /\ n <= TODAY + 30
               ELSE n = NaT

C3_Witness ==
    /\ pc = "ready"
    /\ \E k \in 1..Len(df_cases) : df_cases[k].NextHearingDate = TODAY + 30
    /\ \E k \in 1..Len(df_cases) : df_cases[k].NextHearingDate = NaT

\* C4: with an active query, a row that passes the categorical filters is kept
\* iff the query occurs, letter case ignored, as a substring of Summary,
\* Petitioner or Case Type; Case No., Court and Status are not searched and a
\* row with the three fields absent is never kept.
C4_TextPredicate ==
    SearchReturned /\ strip(query_input) # <<>> =>
        \A k \in 1..Len(df_cases) :
            PassesCategorical(df_cases[k]) =>
                (InResults(df_cases[k]) <=> OccursInText(query_input, df_cases[k]))

\* C5: a row is removed only by an active predicate: a categorical filter that
\* is not "All" and differs from the row's value, or a query that is not empty
\* after trimming.  With nothing active the result is df_cases itself.
C5_InactiveNoOp ==
    SearchReturned =>
        /\ \A k \in 1..Len(df_cases) :
              ~InResults(df_cases[k]) =>
                  \/ court_filter # All /\ df_cases[k].Court # court_filter
                  \/ status_filter # All /\ df_cases[k].Status # status_filter
                  \/ case_type_filter # All /\ df_cases[k].CaseType # case_type_filter
                  \/ strip(query_input) # <<>>
        /\ ( /\ court_filter = All
             /\ status_filter = All
             /\ case_type_filter = All
             /\ strip(query_input) = <<>> ) => results_df = df_cases

C5_Witness ==
    /\ SearchReturned
    /\ query_input = <<" ">>
    /\ court_filter = All
    /\ status_filter = Decided
    /\ case_type_filter = All
    /\ Len(df_cases) = 2
    /\ Len(results_df) = 1

ExpectedTrace ==
    <<StepReceived>>
    \o (IF court_filter # All THEN <<StepCourt(court_filter)>> ELSE <<>>)
    \o (IF status_filter # All THEN <<StepStatus(status_filter)>> ELSE <<>>)
    \o (IF case_type_filter # All THEN <<StepCaseType(case_type_filter)>> ELSE <<>>)
    \o (IF strip(query_input) # <<>> THEN <<StepText>> ELSE <<>>)
    \o <<StepFound(Len(results_df))>>

\* C7: the returned trace is the request step, then the steps of court, status,
\* case type and free text, each present iff its predicate was applied, then one
\* final step with the number of returned rows.
C7_TraceOrder == SearchReturned => reasoning = ExpectedTrace

C7_Witness ==
    /\ SearchReturned
    /\ Len(reasoning) = 6
    /\ 0 < Len(results_df)
    /\ Len(results_df) < Len(df_cases)

\* C8: every Run Search completes; an empty result comes with a trace that ends
\* in "0 matching cases" and shows the notice only, a non-empty one shows the
\* table and the export and not the notice.
C8_NoMatchNotError ==
    SearchRan =>
        /\ outcome = "returned"
        /\ results_df = <<>> =>
              /\ reasoning # <<>>
              /\ reasoning[Len(reasoning)] = StepFound(0)
              /\ shown = {"warning"}
        /\ results_df # <<>> => shown = {"dataframe", "download_button"}

\* C9: the assignment map starts empty and changes only in a Save Assignment
\* rerun, which sets the selected case's entry to the chosen department and
\* officer (an empty officer included) and keeps every other entry; the loaded
\* table never changes.
C9_AssignmentFrame ==
    /\ assignments = <<>>
    /\ [][ /\ pc = "ready" => pc' = "ready" /\ df_cases' = df_cases
           /\ assignments' # assignments => clicked' = "Save Assignment"
           /\ clicked' = "Save Assignment" =>
                 /\ selected_event # NoEvent
                 /\ DOMAIN assignments' = DOMAIN assignments \cup {selected_event.id}
                 /\ assignments'[selected_event.id] =
                       [Department |-> department', Officer |-> individual']
                 /\ \A k \in DOMAIN assignments \ {selected_event.id} :
                       assignments'[k] = assignments[k] ]_vars

C9_Witness ==
    /\ clicked = "Save Assignment"
    /\ individual = ""
    /\ Cardinality(DOMAIN assignments) = 2
    /\ assignments[selected_event.id].Officer = ""
    /\ \E k \in DOMAIN assignments : assignments[k].Officer = "Rao"

\* C10: load_cases ends: the loop leaves one entry per row in next_dates, in
\* table order (a date for an open row, NaT for another), and the table is
\* assigned to df_cases.
C10_LoadTerminates ==
    /\ [](pc = "assign" =>
            /\ Len(next_dates) = Len(df)
            /\ \A k \in 1..Len(df) : (next_dates[k] # NaT) <=> is_open(df[k]))
    /\ <>(pc = "ready")

C10_Witness ==
    /\ pc = "draw"
    /\ i = 2
    /\ days_ahead \in {5, 6, 12, 13, 19, 20, 26, 27}

====
